---- MODULE Spec2Model ----
(***************************************************************************)
(* A model of NewsHotWordProvider (google_news_hotword_provider.py).       *)
(*                                                                         *)
(* Python strings are sequences of one-character strings, so that          *)
(* strip(), lower(), startswith(), `in` and the regular expressions of the *)
(* source are computed character by character.  The model's alphabet is    *)
(* ASCII; the only whitespace character in it is the space.                *)
(***************************************************************************)
EXTENDS Integers, Sequences, FiniteSets, TLC

VARIABLES
    pc,            \* position of the caller inside get_hot_words_json
    file,          \* content of recword.json, or NoFile
    yahoo_news,    \* get_hot_words_json: yahoo_news
    google_news,   \* get_hot_words_json: google_news
    ret,           \* value returned by the last get_hot_words_json call
    raised,        \* an exception escaped get_hot_words_json
    html_content,  \* parse_yahoo_html: html_content
    news_array,    \* parse_yahoo_html: news_array
    ran,           \* strategies of parse_yahoo_html attempted, in order
    accepted,      \* records appended by each strategy of parse_yahoo_html
    xml_content,   \* fetch_google_news_rss: xml_content
    title,         \* clean_title: argument
    cleaned,       \* clean_title: successive results
    url,           \* should_exclude_url: argument
    excluded       \* should_exclude_url: result

vars == <<pc, file, yahoo_news, google_news, ret, raised, html_content,
          news_array, ran, accepted, xml_content, title, cleaned, url,
          excluded>>

----------------------------------------------------------------------------
(* Python str operations                                                   *)

SetMax(S) == CHOOSE x \in S : \A y \in S : y <= x
SetMin(S) == CHOOSE x \in S : \A y \in S : x <= y

IsSpace(c) == c = " "

\* str.strip()
strip(s) ==
    LET keep == {i \in 1..Len(s) : ~IsSpace(s[i])}
    IN  IF keep = {} THEN <<>> ELSE SubSeq(s, SetMin(keep), SetMax(keep))

UpperCase == <<"A","B","C","D","E","F","G","H","I","J","K","L","M",
               "N","O","P","Q","R","S","T","U","V","W","X","Y","Z">>
LowerCase == <<"a","b","c","d","e","f","g","h","i","j","k","l","m",
               "n","o","p","q","r","s","t","u","v","w","x","y","z">>

LowerTable ==
    [c \in {UpperCase[i] : i \in 1..Len(UpperCase)} |->
        LowerCase[CHOOSE i \in 1..Len(UpperCase) : UpperCase[i] = c]]

lower_char(c) == IF c \in DOMAIN LowerTable THEN LowerTable[c] ELSE c

\* str.lower()
lower(s) == [i \in 1..Len(s) |-> lower_char(s[i])]

\* the first index from i on whose character is in cs, Len(text) + 1 when
\* there is none
find(text, i, cs) ==
    CHOOSE j \in i .. Len(text) + 1 :
        /\ j > Len(text) \/ text[j] \in cs
        /\ \A k \in i .. j - 1 : text[k] \notin cs

\* str.startswith(prefix)
startswith(s, prefix) ==
    Len(s) >= Len(prefix) /\ SubSeq(s, 1, Len(prefix)) = prefix

\* `sub in s`
contains(s, sub) ==
    \E i \in 1..(Len(s) - Len(sub) + 1) : SubSeq(s, i, i + Len(sub) - 1) = sub

----------------------------------------------------------------------------
(* html.unescape, as clean_title calls it.  The named references of the    *)
(* table that the model's alphabet can spell are amp, lt and gt (with or   *)
(* without the closing semicolon); numeric references (&#...;) are outside *)
(* the alphabet of the titles drawn here.                                  *)

html5 == { <<<<"a","m","p">>, "&">>, <<<<"a","m","p",";">>, "&">>,
           <<<<"l","t">>, "<">>,     <<<<"l","t",";">>, "<">>,
           <<<<"g","t">>, ">">>,     <<<<"g","t",";">>, ">">> }

in_html5(name) == \E e \in html5 : e[1] = name
html5_get(name) == (CHOOSE e \in html5 : e[1] = name)[2]

\* characters of [^\t\n\f <&#;]
IsRefChar(c) == c \notin {" ", "<", "&", "#", ";"}

MaxRefLen == 32

\* html._replace_charref for a named reference
replace_charref(s) ==
    IF in_html5(s) THEN <<html5_get(s)>>
    ELSE LET xs == {x \in 2..(Len(s) - 1) : in_html5(SubSeq(s, 1, x))}
         IN  IF xs = {} THEN <<"&">> \o s
             ELSE LET x == SetMax(xs)
                  IN  <<html5_get(SubSeq(s, 1, x))>> \o SubSeq(s, x + 1, Len(s))

\* length of the run [^\t\n\f <&#;]{1,32} starting at position i
ref_run(s, i) ==
    LET stops == {k \in i..Len(s) : ~IsRefChar(s[k])}
        upto  == IF stops = {} THEN Len(s) + 1 ELSE SetMin(stops)
        n     == upto - i
    IN  IF n > MaxRefLen THEN MaxRefLen ELSE n

\* _charref.sub(_replace_charref, s) from index i on: the text up to the
\* next & at index a is kept, and the reference that starts there replaced
RECURSIVE unescape_from(_, _)
unescape_from(s, i) ==
    LET a == find(s, i, {"&"})
    IN  IF a > Len(s) THEN SubSeq(s, i, Len(s))
        ELSE LET n == ref_run(s, a + 1)
             IN  IF n = 0 THEN SubSeq(s, i, a) \o unescape_from(s, a + 1)
                 ELSE LET semi == a + n + 1 <= Len(s) /\ s[a + n + 1] = ";"
                          ref  == SubSeq(s, a + 1, a + n + (IF semi THEN 1 ELSE 0))
                      IN  SubSeq(s, i, a - 1) \o replace_charref(ref)
                              \o unescape_from(s, a + 1 + Len(ref))

\* html.unescape
unescape(s) == unescape_from(s, 1)

----------------------------------------------------------------------------
(* clean_title                                                             *)

\* s[i..] matches  \s*\|\s*[^|]*\s*-\s*[^-]*$ : spaces, a '|' at j, no
\* further '|' up to a '-' at d, no further '-' up to the end
match_pipe_dash(s, i) ==
    \E j \in i..Len(s) :
        /\ s[j] = "|"
        /\ \A k \in i..(j - 1) : IsSpace(s[k])
        /\ \E d \in (j + 1)..Len(s) :
              /\ s[d] = "-"
              /\ \A k \in (j + 1)..(d - 1) : s[k] # "|"
              /\ \A k \in (d + 1)..Len(s) : s[k] # "-"

\* s[i..] matches  \s*-\s*[^-]*$ : spaces, a '-' at d, no further '-'
match_dash(s, i) ==
    \E d \in i..Len(s) :
        /\ s[d] = "-"
        /\ \A k \in i..(d - 1) : IsSpace(s[k])
        /\ \A k \in (d + 1)..Len(s) : s[k] # "-"

\* re.sub(pattern, '', s) for a pattern anchored at the end of the string:
\* the leftmost match runs to the end and is removed
\* the first pattern written without its dash part:  \s*\|\s*[^|]*$
sub_pipe_any(s) ==
    LET starts == {i \in 1..Len(s) :
                     \E j \in i..Len(s) :
                        /\ s[j] = "|"
                        /\ \A k \in i..(j - 1) : IsSpace(s[k])
                        /\ \A k \in (j + 1)..Len(s) : s[k] # "|"}
    IN  IF starts = {} THEN s ELSE SubSeq(s, 1, SetMin(starts) - 1)

sub_pipe_dash(s) ==
    LET starts == {i \in 1..Len(s) : match_pipe_dash(s, i)}
    IN  IF starts = {} THEN s ELSE SubSeq(s, 1, SetMin(starts) - 1)

sub_dash(s) ==
    LET starts == {i \in 1..Len(s) : match_dash(s, i)}
    IN  IF starts = {} THEN s ELSE SubSeq(s, 1, SetMin(starts) - 1)

clean_title(t) ==
    IF t = <<>> THEN t
    ELSE strip(sub_dash(sub_pipe_dash(strip(unescape(t)))))

----------------------------------------------------------------------------
(* should_exclude_text, should_exclude_url                                 *)

\* the patterns of exclude_patterns that the model's alphabet can spell;
\* the others hold CJK characters, a comma or a brace
exclude_patterns == <<
    <<"M","a","n","a","g","e"," ","h","i","s","t","o","r","y">>,
    <<"b","r","o","w","s","e","r"," ","v","e","r","s","i","o","n">>,
    <<"I","n","t","e","r","n","e","t"," ","E","x","p","l","o","r","e","r">> >>

MIN_TEXT_LEN == 5

should_exclude_text(text) ==
    IF text = <<>> THEN TRUE
    ELSE IF \E p \in 1..Len(exclude_patterns) :
                contains(lower(text), lower(exclude_patterns[p])) THEN TRUE
    ELSE IF Len(strip(text)) < MIN_TEXT_LEN THEN TRUE
    ELSE FALSE

exclude_url_patterns == <<
    <<"j","a","v","a","s","c","r","i","p","t",":">>,
    <<"m","a","i","l","t","o",":">>,
    <<"#">>,
    <<"m","i","c","r","o","s","o","f","t",".","c","o","m","/","z","h","-",
      "t","w","/","d","o","w","n","l","o","a","d","/","i","n","t","e","r",
      "n","e","t","-","e","x","p","l","o","r","e","r">>,
    <<"d","o","w","n","l","o","a","d","/","i","n","t","e","r","n","e","t",
      "-","e","x","p","l","o","r","e","r">> >>

HTTP  == <<"h","t","t","p",":","/","/">>
HTTPS == <<"h","t","t","p","s",":","/","/">>

\* should_exclude_url without the test of the scheme (lines 455-456)
should_exclude_url_any_scheme(u) ==
    IF u = <<>> THEN TRUE
    ELSE IF \E p \in 1..Len(exclude_url_patterns) :
                contains(lower(u), exclude_url_patterns[p]) THEN TRUE
    ELSE FALSE

should_exclude_url(u) ==
    IF u = <<>> THEN TRUE
    ELSE IF \E p \in 1..Len(exclude_url_patterns) :
                contains(lower(u), exclude_url_patterns[p]) THEN TRUE
    ELSE IF ~(startswith(u, HTTP) \/ startswith(u, HTTPS)) THEN TRUE
    ELSE FALSE

----------------------------------------------------------------------------
(* parse_yahoo_html.  The markup is a string, and each of the three       *)
(* patterns is matched on it as re.finditer matches it: from left to      *)
(* right, without overlap, each greedy part taking the longest run that   *)
(* lets the rest of the pattern match.                                     *)

MAX_NEWS_ITEMS == 15
YAHOO_NEWS_URL == <<"h","t","t","p","s",":","/","/","t","w",".","n","e","w",
                    "s",".","y","a","h","o","o",".","c","o","m","/">>

ARTICLES == <<"/","a","r","t","i","c","l","e","s">>

Quotes == {"\"", "'"}
OPEN_A == <<"<","a">>
CLOSE_A == <<"<","/","a",">">>
HREF == <<"h","r","e","f","=">>
CLASS == <<"c","l","a","s","s","=">>

\* the literal word stands at index i, under re.IGNORECASE
at(text, i, word) ==
    /\ i >= 1
    /\ i + Len(word) - 1 <= Len(text)
    /\ \A k \in 1..Len(word) :
          lower_char(text[i + k - 1]) = lower_char(word[k])

\* ["\'] at index i
quote_at(text, i) == i >= 1 /\ i <= Len(text) /\ text[i] \in Quotes

\* a match object: group of the url, group of the title, match.end()
NoMatch == [found |-> FALSE]
Match(u, t, end) == [found |-> TRUE, url |-> u, title |-> t, end |-> end]

\* >([^<]{min_text,})</a>  with the > at index g and the next < at index l
tail_text(text, u, g, l, min_text) ==
    IF g <= Len(text) /\ l - (g + 1) >= min_text /\ at(text, l, CLOSE_A)
    THEN Match(u, SubSeq(text, g + 1, l - 1), l + Len(CLOSE_A))
    ELSE NoMatch

\* the url group from index b to the closing quote at index e, of min_url
\* characters or more, and the rest of the pattern: [^>]* up to the first >
\* after the quote, the text up to the next <
url_group(text, b, e, min_url, min_text) ==
    IF e - b >= min_url /\ e <= Len(text)
    THEN tail_text(text, SubSeq(text, b, e - 1), find(text, e + 1, {">"}),
                   find(text, find(text, e + 1, {">"}) + 1, {"<"}), min_text)
    ELSE NoMatch

\* href=["\'](\\.?/articles[^"\']*)["\'][^>]*>([^<]*)</a>  with href= at
\* index h: a backslash, at most one further character (the alphabet has
\* no line break, so the dot matches every character), then /articles
pattern1(text, h) ==
    IF at(text, h, HREF) /\ quote_at(text, h + 5)
          /\ h + 6 <= Len(text) /\ text[h + 6] = "\\"
    THEN IF at(text, h + 8, ARTICLES)
         THEN url_group(text, h + 6,
                        find(text, h + 8 + Len(ARTICLES), Quotes), 0, 0)
         ELSE IF at(text, h + 7, ARTICLES)
         THEN url_group(text, h + 6,
                        find(text, h + 7 + Len(ARTICLES), Quotes), 0, 0)
         ELSE NoMatch
    ELSE NoMatch

\* href=["\']([^"\']*)["\'][^>]*>([^<]*)</a>  with href= at index h
pattern2_href(text, h) ==
    IF at(text, h, HREF) /\ quote_at(text, h + 5)
    THEN url_group(text, h + 6, find(text, h + 6, Quotes), 0, 0)
    ELSE NoMatch

MIN_LINK_TEXT == 10
MAX_TITLE_LEN == 255

\* href=["\']([^"\']+)["\'][^>]*>([^<]{10,})</a>  with href= at index h
pattern3(text, h) ==
    IF at(text, h, HREF) /\ quote_at(text, h + 5)
    THEN url_group(text, h + 6, find(text, h + 6, Quotes), 1, MIN_LINK_TEXT)
    ELSE NoMatch

href_match(s, text, h) ==
    CASE s = "A" -> pattern1(text, h)
      [] s = "B" -> pattern2_href(text, h)
      [] s = "C" -> pattern3(text, h)

\* the indexes of lo..h where an href= stands from which the rest of the
\* pattern s matches
href_sites(s, text, h, lo) == { k \in lo .. h : href_match(s, text, k).found }

href_at_last(s, text, sites) ==
    IF sites = {} THEN NoMatch ELSE href_match(s, text, SetMax(sites))

\* [^>]*href=...: the greedy [^>]* ends at the last href= of lo..h from
\* which the rest of the pattern matches
last_href(s, text, h, lo) == href_at_last(s, text, href_sites(s, text, h, lo))

class_markers == << <<"g","P","F","E","n">>, <<"I","F","H","y","q","b">>,
                    <<"I","B","r","9","h","b">> >>

\* ([^"\']*(?:gPFEn|IFHyqb|IBr9hb)[^"\']*)["\'][^>]*href=...  with the
\* class group from index b to the closing quote at index e
class_group(text, b, e) ==
    IF /\ e <= Len(text)
       /\ \E k \in b .. e - 1 : \E m \in 1..Len(class_markers) :
              /\ k + Len(class_markers[m]) <= e
              /\ at(text, k, class_markers[m])
    THEN last_href("B", text, find(text, e + 1, {">"}) - Len(HREF) - 1, e + 1)
    ELSE NoMatch

\* class=["\'](...)["\'][^>]*href=...  with class= at index c
pattern2(text, c) ==
    IF at(text, c, CLASS) /\ quote_at(text, c + 6)
    THEN class_group(text, c + 7, find(text, c + 7, Quotes))
    ELSE NoMatch

\* the indexes of lo..c where a class= stands from which the rest matches
class_sites(text, c, lo) == { k \in lo .. c : pattern2(text, k).found }

class_at_last(text, sites) ==
    IF sites = {} THEN NoMatch ELSE pattern2(text, SetMax(sites))

\* [^>]*class=...: the last class= of lo..c from which the rest matches
last_class(text, c, lo) == class_at_last(text, class_sites(text, c, lo))

\* [^>]*  and the rest of the pattern s, in a tag whose first > is at g
tag(s, text, p, g) ==
    IF s = "B" THEN last_class(text, g - Len(CLASS) - 1, p + 3)
    ELSE last_href(s, text, g - Len(HREF) - 1, p + 3)

\* pattern.match(text, p): <a\s+[^>]*  and the rest of the pattern s
matches(s, text, p) ==
    IF at(text, p, OPEN_A) /\ p + 2 <= Len(text) /\ IsSpace(text[p + 2])
    THEN tag(s, text, p, find(text, p + 3, {">"}))
    ELSE NoMatch

\* the first index from i on where the pattern s matches, Len(text) + 1
\* when it matches nowhere
next_start(s, text, i) ==
    CHOOSE p \in i .. Len(text) + 1 :
        /\ p > Len(text) \/ matches(s, text, p).found
        /\ \A k \in i .. p - 1 : ~matches(s, text, k).found

\* the next match of finditer from index i on
next_match(s, text, i) == matches(s, text, next_start(s, text, i))

\* pattern.finditer(text): the matches from index i on, in order
RECURSIVE finditer_from(_, _, _)
and_later(m, s, text) ==
    IF ~m.found THEN <<>> ELSE <<m>> \o finditer_from(s, text, m.end)

finditer_from(s, text, i) == and_later(next_match(s, text, i), s, text)

finditer(s, text) == finditer_from(s, text, 1)

news_item(text, link, source) ==
    [text |-> text, url |-> link, h5_url |-> link, appIconUrl |-> "",
     sourceUniqueId |-> source, package |-> ""]

\* lines 328-332: relative links are resolved against YAHOO_NEWS_URL
resolve(u) ==
    IF startswith(u, <<"h","t","t","p">>) THEN u
    ELSE IF startswith(u, <<".","/">>) THEN YAHOO_NEWS_URL \o SubSeq(u, 3, Len(u))
    ELSE IF startswith(u, <<"/">>) THEN YAHOO_NEWS_URL \o u
    ELSE u

\* body of the first and of the second for loop, for one match
visit_plain(m, news) ==
    LET t == clean_title(m.title)
    IN  IF should_exclude_text(t) THEN news
        ELSE IF should_exclude_url(m.url) THEN news
        ELSE IF t # <<>> /\ m.url # <<>>
             THEN Append(news, news_item(t, m.url, "content_yahoo"))
             ELSE news

\* body of the third for loop, for one match
visit_generic(m, news) ==
    LET raw == IF Len(m.title) > MAX_TITLE_LEN
               THEN SubSeq(m.title, 1, MAX_TITLE_LEN) ELSE m.title
        t   == clean_title(raw)
        u   == resolve(m.url)
    IN  IF should_exclude_text(t) THEN news
        ELSE IF should_exclude_url(u) THEN news
        ELSE IF t # <<>> /\ u # <<>>
             THEN Append(news, news_item(t, u, "content_yahoo"))
             ELSE news

visit(s, m, news) ==
    IF s = "C" THEN visit_generic(m, news) ELSE visit_plain(m, news)

\* lines 245, 279, 312: if len(news_array) >= self.MAX_NEWS_ITEMS: break
\* the loops without their break
cap_never_reached(news) == FALSE

cap_reached(news) == Len(news) >= MAX_NEWS_ITEMS

\* the body of a for loop for the match m: the break at the cap, else the
\* visit and the rest of the loop
RECURSIVE strategy_loop(_, _, _, _)
loop_body(s, html, news, m) ==
    IF ~m.found \/ cap_reached(news) THEN news
    ELSE strategy_loop(s, html, m.end, visit(s, m, news))

\* for match in matches: ... over the matches from index i of the markup on
strategy_loop(s, html, i, news) ==
    loop_body(s, html, news, next_match(s, html, i))

\* line 273: if len(news_array) == 0, before the second pattern
tries_second(news) == Len(news) = 0

\* the third pattern tried whenever the list is not yet full
tries_third_if_not_full(news) == Len(news) < MAX_NEWS_ITEMS

\* line 306: if len(news_array) == 0, before the third pattern
tries_third(news) == Len(news) = 0

\* lines 273-303
second_pattern(html, news) ==
    IF tries_second(news) THEN strategy_loop("B", html, 1, news) ELSE news

\* lines 306-347
third_pattern(html, news) ==
    IF tries_third(news) THEN strategy_loop("C", html, 1, news) ELSE news

\* parse_yahoo_html(html_content, news_array): news_array when it returns
parse_yahoo_html(html, news) ==
    third_pattern(html, second_pattern(html, strategy_loop("A", html, 1, news)))

----------------------------------------------------------------------------
(* Calls that may raise: the value returned, or an exception               *)

Return(v) == [exc |-> FALSE, value |-> v]
Raise     == [exc |-> TRUE, value |-> <<>>]

\* the try block without its except clause
except_nothing(r) == r

\* except (URLError, HTTPError, Exception) as e: return []
except_return_empty(r) == IF r.exc THEN Return(<<>>) ELSE r

\* what urlopen gives: an exception (URLError, HTTPError), or a response
\* with a status and a decoded body
Failure == [raises |-> TRUE, status |-> 0, body |-> <<>>]
Response(status, body) == [raises |-> FALSE, status |-> status, body |-> body]

HTTP_OK == 200

\* fetch_yahoo_news_trending, given what urlopen gives
fetch_yahoo_news_trending(resp) ==
    except_return_empty(
        IF resp.raises THEN Raise
        ELSE IF resp.status # HTTP_OK THEN Return(<<>>)
        ELSE Return(parse_yahoo_html(resp.body, <<>>)))

----------------------------------------------------------------------------
(* fetch_google_news_rss.  The feed is ill-formed (ET.fromstring raises    *)
(* ParseError) or the sequence of its item elements in document order; a   *)
(* child element of an item is absent, or present with its text as         *)
(* ElementTree gives it (<<>> standing for the None of an empty element).  *)

NoElem == [present |-> FALSE, text |-> <<>>]
Elem(text) == [present |-> TRUE, text |-> text]
Item(t, l) == [title |-> t, link |-> l]

\* line 155: items[:self.MAX_NEWS_ITEMS]
first_items(items) ==
    SubSeq(items, 1, IF Len(items) < MAX_NEWS_ITEMS THEN Len(items)
                     ELSE MAX_NEWS_ITEMS)

\* lines 156-176: what the body of the for loop appends for one item, one
\* record or nothing
item_news(item) ==
    IF item.title.present /\ item.link.present
    THEN IF item.title.text # <<>> /\ item.link.text # <<>>
         THEN LET t == clean_title(item.title.text)
              IN  IF ~should_exclude_text(t)
                  THEN <<news_item(t, item.link.text, "content_google")>>
                  ELSE <<>>
         ELSE <<>>
    ELSE <<>>

\* the body of the for loop, for one item
visit_item(item, news) == news \o item_news(item)

RECURSIVE rss_loop(_, _)
rss_loop(items, news) ==
    IF items = <<>> THEN news
    ELSE rss_loop(Tail(items), visit_item(Head(items), news))

\* lines 148-183
parse_rss(xml) ==
    IF ~xml.well_formed THEN <<>>
    ELSE rss_loop(first_items(xml.items), <<>>)

\* fetch_google_news_rss, given what urlopen gives
fetch_google_news_rss(resp) ==
    except_return_empty(
        IF resp.raises THEN Raise
        ELSE IF resp.status # HTTP_OK THEN Return(<<>>)
        ELSE Return(parse_rss(resp.body)))

----------------------------------------------------------------------------
(* The documents of create_fallback_json and get_hot_words_json            *)

GOOGLE_NEWS_WEB_URL ==
    <<"h","t","t","p","s",":","/","/","n","e","w","s",".","g","o","o","g",
      "l","e",".","c","o","m","/","h","o","m","e","?","h","l","=","z","h",
      "-","T","W","&","g","l","=","T","W","&","c","e","i","d","=","T","W",
      ":","z","h","-","H","a","n","t">>

\* the two fixed sentences of the fallback records are CJK text in the
\* source; the model writes them in its own alphabet
YAHOO_UNREACHABLE ==
    <<"Y","a","h","o","o"," ","n","e","w","s"," ","u","n","r","e","a","c",
      "h","a","b","l","e">>
GOOGLE_UNREACHABLE ==
    <<"G","o","o","g","l","e"," ","n","e","w","s"," ","u","n","r","e","a",
      "c","h","a","b","l","e">>

section(track_id, name, data, rank_type) ==
    [track_id |-> track_id, title |-> name, title_icon_url |-> "",
     headImageUrl |-> "", link_type |-> "app", data |-> data,
     selectedStatus |-> FALSE, rank_type |-> rank_type]

updateIntervalMinutes == [net \in {"2G", "3G", "4G", "WIFI"} |-> 20]

\* json.dumps(data, ensure_ascii=False, indent=2): the text, as the value
\* it writes and the way it is written
json_dumps(data) == [indent |-> 2, ensure_ascii |-> FALSE, value |-> data]

fallback_data ==
    [config_id |-> "R-10",
     updateIntervalMinutes |-> updateIntervalMinutes,
     result |-> << section("hq_yahoo", "Yahoo!",
                       <<news_item(YAHOO_UNREACHABLE, YAHOO_NEWS_URL, "content_yahoo")>>,
                       "Yahoo"),
                   section("hq_google", "Google",
                       <<news_item(GOOGLE_UNREACHABLE, GOOGLE_NEWS_WEB_URL, "content_google")>>,
                       "Google") >>,
     hash |-> "news_fallback",
     qt |-> "composite_ad_news",
     message |-> "success",
     cost |-> 20,
     status |-> 0]

\* create_fallback_json: json.dumps of a literal of str, int and bool does
\* not raise, so the except branch (lines 116-118) is never taken
create_fallback_json == json_dumps(fallback_data)

\* lines 526-537: if yahoo_news: result.append(yahoo_section)
yahoo_sections(yahoo) ==
    IF yahoo # <<>>
    THEN <<section("hq_yahoo", "Yahoo!", yahoo, "rank_ahoo")>> ELSE <<>>

\* lines 540-551: if google_news: result.append(google_section)
google_sections(google) ==
    IF google # <<>>
    THEN <<section("hq_google", "Google", google, "rank_google")>> ELSE <<>>

\* the two sections appended in the other order
build_result_google_first(yahoo, google) ==
    google_sections(google) \o yahoo_sections(yahoo)

\* lines 523-551
build_result(yahoo, google) == yahoo_sections(yahoo) \o google_sections(google)

\* the assembled document returned whatever result holds
uses_fallback_never(result) == FALSE

\* line 554: if not result
uses_fallback(result) == result = <<>>

MIN_COST == 10
MAX_COST == 50

response_data(result, cost) ==
    [config_id |-> "R-10",
     updateIntervalMinutes |-> updateIntervalMinutes,
     result |-> result,
     hash |-> "c2d15b8822404d2ea10f48b759eadba1",
     qt |-> "composite_ad_yahoo_google",
     message |-> "success",
     cost |-> cost,
     status |-> 0]

----------------------------------------------------------------------------
(* Values of the variables a specification does not use                    *)

NoFile == [exists |-> FALSE]
NoRet  == [returned |-> FALSE]

PipeIdle ==
    /\ pc = "idle"
    /\ file = NoFile
    /\ yahoo_news = <<>>
    /\ google_news = <<>>
    /\ ret = NoRet
    /\ raised = FALSE

ParseIdle ==
    /\ html_content = <<>>
    /\ news_array = <<>>
    /\ ran = <<>>
    /\ accepted = [s \in {"A", "B", "C"} |-> 0]

FeedIdle == xml_content = [well_formed |-> TRUE, items |-> <<>>]

CleanIdle == title = <<>> /\ cleaned = <<>>

UrlIdle == url = <<>> /\ excluded = <<>>

pipeVars  == <<pc, file, yahoo_news, google_news, ret, raised>>
parseVars == <<html_content, news_array, ran, accepted>>
cleanVars == <<title, cleaned>>
urlVars   == <<url, excluded>>

----------------------------------------------------------------------------
(* Strings built from tokens: every concatenation of at most n tokens      *)

RECURSIVE Concat(_)
Concat(ss) == IF ss = <<>> THEN <<>> ELSE Head(ss) \o Concat(Tail(ss))

TokenStrings(tokens, n) ==
    UNION { { Concat(ts) : ts \in [1..k -> tokens] } : k \in 0..n }

----------------------------------------------------------------------------
(* clean_title applied to a title, and again to its own result             *)

TitleTokens == { <<"a">>, <<" ">>, <<"-">>, <<"|">>,
                 <<"&","a","m","p",";">>, <<"l","t",";">> }

MaxTitleTokens == 5
MaxCleanings == 2

Titles == TokenStrings(TitleTokens, MaxTitleTokens)

InitClean ==
    /\ title \in Titles
    /\ cleaned = <<>>
    /\ PipeIdle /\ ParseIdle /\ FeedIdle /\ UrlIdle

\* title = self.clean_title(title)
CleanTitle ==
    /\ Len(cleaned) < MaxCleanings
    /\ cleaned' = Append(cleaned,
                    clean_title(IF cleaned = <<>> THEN title
                                ELSE cleaned[Len(cleaned)]))
    /\ UNCHANGED <<title, pipeVars, parseVars, xml_content, urlVars>>

NextClean == CleanTitle

SpecClean == InitClean /\ [][NextClean]_vars

----------------------------------------------------------------------------
(* should_exclude_url applied to a url                                     *)

UrlTokens == { <<"h","t","t","p">>, <<"H","T","T","P">>, <<"H","t","t","p">>,
               <<"s">>, <<"S">>, <<":","/","/">>, <<"a",".","t","w">>,
               <<"/">>, <<"#">>, <<"f","t","p">> }

MaxUrlTokens == 4

Urls == TokenStrings(UrlTokens, MaxUrlTokens)

InitUrl ==
    /\ url \in Urls
    /\ excluded = <<>>
    /\ PipeIdle /\ ParseIdle /\ FeedIdle /\ CleanIdle

\* self.should_exclude_url(url)
CheckUrl ==
    /\ excluded = <<>>
    /\ excluded' = <<should_exclude_url(url)>>
    /\ UNCHANGED <<url, pipeVars, parseVars, xml_content, cleanVars>>

NextUrl == CheckUrl

SpecUrl == InitUrl /\ [][NextUrl]_vars

----------------------------------------------------------------------------
(* Documents: a run of one kind of element followed by a run of another    *)

Run(x, n) == [i \in 1..n |-> x]

MaxDocLen == 17

TwoRuns(kinds, maxlen) ==
    { Run(k[1], n[1]) \o Run(k[2], n[2]) :
        k \in kinds \X kinds,
        n \in { m \in (0..maxlen) \X (0..maxlen) : m[1] + m[2] <= maxlen } }

\* the same with runs that are short or that reach to the end of the
\* document
EdgeRuns(kinds, maxlen) ==
    LET lens == {0, 1, 2, maxlen - 2, maxlen - 1, maxlen}
    IN  { Run(k[1], n[1]) \o Run(k[2], n[2]) :
            k \in kinds \X kinds,
            n \in { m \in lens \X lens : m[1] + m[2] <= maxlen } }

Anchor(cls, first, href, text) ==
    [class |-> cls, class_first |-> first, href |-> href, text |-> text]

\* <a href="\/articles/1">Typhoon news - CNA</a>
ArticleAnchor ==
    Anchor(<<>>, FALSE,
           <<"\\","/","a","r","t","i","c","l","e","s","/","1">>,
           <<"T","y","p","h","o","o","n"," ","n","e","w","s"," ","-"," ","C","N","A">>)
\* <a class="gPFEn" href="https://y.tw/b">Stock rally - LTN</a>
ClassAnchor ==
    Anchor(<<"g","P","F","E","n">>, TRUE,
           <<"h","t","t","p","s",":","/","/","y",".","t","w","/","b">>,
           <<"S","t","o","c","k"," ","r","a","l","l","y"," ","-"," ","L","T","N">>)
\* <a class="x ifhyqb" href="/b2">Relative link</a>
ClassRelativeAnchor ==
    Anchor(<<"x"," ","i","f","h","y","q","b">>, TRUE, <<"/","b","2">>,
           <<"R","e","l","a","t","i","v","e"," ","l","i","n","k">>)
\* <a href="https://y.tw/c" class="IBr9hb">Class after href</a>
HrefFirstAnchor ==
    Anchor(<<"I","B","r","9","h","b">>, FALSE,
           <<"h","t","t","p","s",":","/","/","y",".","t","w","/","c">>,
           <<"C","l","a","s","s"," ","a","f","t","e","r"," ","h","r","e","f">>)
\* <a href="./articles/3">Generic story</a>
DotRelativeAnchor ==
    Anchor(<<>>, FALSE, <<".","/","a","r","t","i","c","l","e","s","/","3">>,
           <<"G","e","n","e","r","i","c"," ","s","t","o","r","y">>)
\* <a href="https://y.tw/s">Brief</a>
ShortTextAnchor ==
    Anchor(<<>>, FALSE,
           <<"h","t","t","p","s",":","/","/","y",".","t","w","/","s">>,
           <<"B","r","i","e","f">>)
\* <a class="gPFEn" href="https://y.tw/ie">Internet Explorer</a>
BoilerplateAnchor ==
    Anchor(<<"g","P","F","E","n">>, TRUE,
           <<"h","t","t","p","s",":","/","/","y",".","t","w","/","i","e">>,
           <<"I","n","t","e","r","n","e","t"," ","E","x","p","l","o","r","e","r">>)
\* <a href="javascript:void(0)">Open the menu</a>
ScriptAnchor ==
    Anchor(<<>>, FALSE,
           <<"j","a","v","a","s","c","r","i","p","t",":","v","o","i","d","(","0",")">>,
           <<"O","p","e","n"," ","t","h","e"," ","m","e","n","u">>)

\* <a class="gPFEn">Class but no href</a>
NoHrefAnchor ==
    Anchor(<<"g","P","F","E","n">>, TRUE, <<>>,
           <<"C","l","a","s","s"," ","b","u","t"," ","n","o"," ","h","r","e","f">>)

\* <a href="https://y.tw/a?href=" class="x">Stock rally news</a>
HrefInHrefAnchor ==
    Anchor(<<"x">>, FALSE,
           <<"h","t","t","p","s",":","/","/","y",".","t","w","/","a","?","h","r","e","f","=">>,
           <<"S","t","o","c","k"," ","r","a","l","l","y"," ","n","e","w","s">>)
\* <a class="gPFEn href=">Some text here</a>
HrefInClassAnchor ==
    Anchor(<<"g","P","F","E","n"," ","h","r","e","f","=">>, TRUE, <<>>,
           <<"S","o","m","e"," ","t","e","x","t"," ","h","e","r","e">>)

AnchorKinds == { NoHrefAnchor, HrefInHrefAnchor, HrefInClassAnchor,
                 ArticleAnchor, ClassAnchor, ClassRelativeAnchor,
                 HrefFirstAnchor, DotRelativeAnchor, ShortTextAnchor,
                 BoilerplateAnchor, ScriptAnchor }

\*  name="value" after a space; an attribute whose value is <<>> is left out
attribute(name, value) ==
    IF value = <<>> THEN <<>>
    ELSE <<" ">> \o name \o <<"\"">> \o value \o <<"\"">>

\* <a class="a.class" href="a.href">a.text</a> when a.class_first,
\* <a href="a.href" class="a.class">a.text</a> otherwise
element(a) ==
    OPEN_A
        \o (IF a.class_first
            THEN attribute(CLASS, a.class) \o attribute(HREF, a.href)
            ELSE attribute(HREF, a.href) \o attribute(CLASS, a.class))
        \o <<">">> \o a.text \o CLOSE_A

\* the markup of a sequence of elements
markup(anchors) == Concat([i \in 1..Len(anchors) |-> element(anchors[i])])

HtmlDocs == { markup(d) : d \in EdgeRuns(AnchorKinds, MaxDocLen) }

----------------------------------------------------------------------------
(* parse_yahoo_html, one pattern at a time, as fetch_yahoo_news_trending   *)
(* calls it: news_array = []                                               *)

InitYahoo ==
    /\ pc = "pattern1"
    /\ html_content \in HtmlDocs
    /\ news_array = <<>>
    /\ ran = <<>>
    /\ accepted = [s \in {"A", "B", "C"} |-> 0]
    /\ file = NoFile /\ yahoo_news = <<>> /\ google_news = <<>>
    /\ ret = NoRet /\ raised = FALSE
    /\ FeedIdle /\ CleanIdle /\ UrlIdle

Attempt(s) ==
    /\ news_array' = strategy_loop(s, html_content, 1, news_array)
    /\ ran' = Append(ran, s)
    /\ accepted' = [accepted EXCEPT ![s] = Len(news_array') - Len(news_array)]

\* lines 241-270
FirstPattern ==
    /\ pc = "pattern1"
    /\ Attempt("A")
    /\ pc' = "pattern2"
    /\ UNCHANGED <<file, yahoo_news, google_news, ret, raised,
                   html_content, xml_content, cleanVars, urlVars>>

\* lines 273-303
SecondPattern ==
    /\ pc = "pattern2"
    /\ IF tries_second(news_array) THEN Attempt("B")
       ELSE UNCHANGED <<news_array, ran, accepted>>
    /\ pc' = "pattern3"
    /\ UNCHANGED <<file, yahoo_news, google_news, ret, raised,
                   html_content, xml_content, cleanVars, urlVars>>

\* lines 306-349
ThirdPattern ==
    /\ pc = "pattern3"
    /\ IF tries_third(news_array) THEN Attempt("C")
       ELSE UNCHANGED <<news_array, ran, accepted>>
    /\ pc' = "parsed"
    /\ UNCHANGED <<file, yahoo_news, google_news, ret, raised,
                   html_content, xml_content, cleanVars, urlVars>>

NextYahoo == FirstPattern \/ SecondPattern \/ ThirdPattern

SpecYahoo == InitYahoo /\ [][NextYahoo]_vars

----------------------------------------------------------------------------
(* The parsing part of fetch_google_news_rss on a feed                     *)

\* <item><title>Quake hits - UDN</title><link>https://g.tw/1</link></item>
GoodItem ==
    Item(Elem(<<"Q","u","a","k","e"," ","h","i","t","s"," ","-"," ","U","D","N">>),
         Elem(<<"h","t","t","p","s",":","/","/","g",".","t","w","/","1">>))
\* <item><title>Rain today</title><link>https://g.tw/3</link></item>
PlainItem ==
    Item(Elem(<<"R","a","i","n"," ","t","o","d","a","y">>),
         Elem(<<"h","t","t","p","s",":","/","/","g",".","t","w","/","3">>))
\* <item><title>Rain today</title><link>ftp://g.tw/2</link></item>
FtpItem ==
    Item(Elem(<<"R","a","i","n"," ","t","o","d","a","y">>),
         Elem(<<"f","t","p",":","/","/","g",".","t","w","/","2">>))
\* <item><title>Hi - BBC</title><link>https://g.tw/1</link></item>
ShortTitleItem ==
    Item(Elem(<<"H","i"," ","-"," ","B","B","C">>),
         Elem(<<"h","t","t","p","s",":","/","/","g",".","t","w","/","1">>))
\* <item><title>Rain today</title></item>
NoLinkItem ==
    Item(Elem(<<"R","a","i","n"," ","t","o","d","a","y">>), NoElem)
\* <item><title></title><link>https://g.tw/1</link></item>
EmptyTitleItem ==
    Item(Elem(<<>>),
         Elem(<<"h","t","t","p","s",":","/","/","g",".","t","w","/","1">>))

ItemKinds == { GoodItem, PlainItem, FtpItem, ShortTitleItem, NoLinkItem,
               EmptyTitleItem }

Feed(items) == [well_formed |-> TRUE, items |-> items]
IllFormedFeed == [well_formed |-> FALSE, items |-> <<>>]

Feeds == { Feed(items) : items \in TwoRuns(ItemKinds, MaxDocLen) }
             \cup { IllFormedFeed }

InitFeed ==
    /\ pc = "rss"
    /\ xml_content \in Feeds
    /\ file = NoFile /\ yahoo_news = <<>> /\ google_news = <<>>
    /\ ret = NoRet /\ raised = FALSE
    /\ ParseIdle /\ CleanIdle /\ UrlIdle

\* lines 148-183
ParseRss ==
    /\ pc = "rss"
    /\ google_news' = parse_rss(xml_content)
    /\ pc' = "parsed"
    /\ UNCHANGED <<file, yahoo_news, ret, raised, parseVars,
                   xml_content, cleanVars, urlVars>>

NextFeed == ParseRss

SpecFeed == InitFeed /\ [][NextFeed]_vars

----------------------------------------------------------------------------
(* get_hot_words_json, called again and again.  pc is "idle" before the   *)
(* first call, "returned" after a call that returned and "raised" after   *)
(* one that raised.                                                        *)

PipeRunLens == {0, MaxDocLen}

\* pages of one kind of element: none that any pattern accepts, elements
\* the second pattern accepts, elements only the third accepts
PipeHtmlDocs ==
    { markup(Run(k, n)) : k \in {ClassAnchor, DotRelativeAnchor, ScriptAnchor},
                          n \in PipeRunLens }

\* feeds of rejected items, and a feed of accepted ones whose first item
\* has an ftp link
PipeFeeds ==
    { Feed(Run(k, n)) : k \in {ShortTitleItem, NoLinkItem}, n \in PipeRunLens }
        \cup { Feed(<<FtpItem>> \o Run(GoodItem, MaxDocLen - 1)), IllFormedFeed }

YahooResponses ==
    { Failure, Response(204, <<>>) }
        \cup { Response(HTTP_OK, d) : d \in PipeHtmlDocs }

GoogleResponses ==
    { Failure, Response(204, Feed(<<>>)) }
        \cup { Response(HTTP_OK, f) : f \in PipeFeeds }

Init ==
    /\ PipeIdle /\ ParseIdle /\ FeedIdle /\ CleanIdle /\ UrlIdle

\* the old file is left where it is
remove_old_file_keeps(f, fails) == f

\* lines 511-516: the old file is removed; an OSError is logged
remove_old_file(f, fails) == IF f.exists /\ ~fails THEN NoFile ELSE f

\* What save_json_to_file meets: nothing raises; os.makedirs or open raises
\* before the file is touched; or open creates or truncates the file and the
\* write raises after `written` characters have reached it.
NoFault == [raises |-> "nothing", written |-> 0]
OpenFails == [raises |-> "open", written |-> 0]
WriteFails(n) == [raises |-> "write", written |-> n]

\* Every document starts with the same HEADER_LEN characters: the keys
\* config_id and updateIntervalMinutes and the opening of "result", in the
\* order of the dictionary, as json.dumps(indent=2) lays them out.
HEADER_LEN == 129

\* the first n characters of the text of a document
truncated(json_string, n) ==
    IF n <= HEADER_LEN
    THEN [header |-> n]
    ELSE [text |-> json_string, written |-> n]

MaxWritten == 64

SaveFaults == { NoFault, OpenFails, WriteFails(0), WriteFails(MaxWritten) }

\* save_json_to_file: the file is written; an exception is logged and
\* leaves the file as it was or holding the part that was written
save_json_to_file(f, json_string, fault) ==
    CASE fault.raises = "nothing" ->
            [exists |-> TRUE, content |-> json_string]
      [] fault.raises = "open" -> f
      [] fault.raises = "write" ->
            [exists |-> TRUE, content |-> truncated(json_string, fault.written)]

\* lines 508-516
Call ==
    /\ pc \in {"idle", "returned", "raised"}
    /\ \E fails \in BOOLEAN : file' = remove_old_file(file, fails)
    /\ yahoo_news' = <<>>
    /\ google_news' = <<>>
    /\ ret' = NoRet
    /\ raised' = FALSE
    /\ pc' = "fetch_yahoo"
    /\ UNCHANGED <<parseVars, xml_content, cleanVars, urlVars>>

\* line 519
FetchYahoo ==
    /\ pc = "fetch_yahoo"
    /\ \E resp \in YahooResponses :
          LET r == fetch_yahoo_news_trending(resp)
          IN  IF r.exc
              THEN raised' = TRUE /\ pc' = "raised" /\ UNCHANGED yahoo_news
              ELSE yahoo_news' = r.value /\ pc' = "fetch_google"
                   /\ UNCHANGED raised
    /\ UNCHANGED <<file, google_news, ret, parseVars, xml_content,
                   cleanVars, urlVars>>

\* line 520
FetchGoogle ==
    /\ pc = "fetch_google"
    /\ \E resp \in GoogleResponses :
          LET r == fetch_google_news_rss(resp)
          IN  IF r.exc
              THEN raised' = TRUE /\ pc' = "raised" /\ UNCHANGED google_news
              ELSE google_news' = r.value /\ pc' = "assemble"
                   /\ UNCHANGED raised
    /\ UNCHANGED <<file, yahoo_news, ret, parseVars, xml_content,
                   cleanVars, urlVars>>

\* lines 523-578
Assemble ==
    /\ pc = "assemble"
    /\ LET result == build_result(yahoo_news, google_news)
       IN  IF uses_fallback(result)
           THEN /\ ret' = [returned |-> TRUE, value |-> create_fallback_json]
                /\ UNCHANGED file
           ELSE \E cost \in MIN_COST..MAX_COST : \E fault \in SaveFaults :
                  LET json_result == json_dumps(response_data(result, cost))
                  IN  /\ file' = save_json_to_file(file, json_result, fault)
                      /\ ret' = [returned |-> TRUE, value |-> json_result]
    /\ pc' = "returned"
    /\ UNCHANGED <<yahoo_news, google_news, raised, parseVars,
                   xml_content, cleanVars, urlVars>>

\* save_json_to_file called by the owner of the provider between two calls
\* of get_hot_words_json, with the fallback document or with the document
\* the last call returned
SaveJsonToFile ==
    /\ pc \in {"idle", "returned"}
    /\ \E json_string \in {create_fallback_json}
                           \cup (IF ret.returned THEN {ret.value} ELSE {}) :
       \E fault \in SaveFaults :
          file' = save_json_to_file(file, json_string, fault)
    /\ UNCHANGED <<pc, yahoo_news, google_news, ret, raised, parseVars,
                   xml_content, cleanVars, urlVars>>

Next == Call \/ FetchYahoo \/ FetchGoogle \/ Assemble \/ SaveJsonToFile

Spec == Init /\ [][Next]_vars

----------------------------------------------------------------------------
(* read_local_json_file, and the calls of get_hot_words_json in which     *)
(* os.remove and the write of recword.json raise nothing                  *)

\* the value None that read_local_json_file returns
None == [found |-> FALSE]

\* read_local_json_file: the content of the file if it exists and the read
\* raises nothing, None otherwise
read_local_json_file(f, fails) ==
    IF f.exists /\ ~fails
    THEN [found |-> TRUE, content |-> f.content]
    ELSE None

\* lines 508-516 when os.remove raises nothing
CallRemoving ==
    /\ Call
    /\ file' = remove_old_file(file, FALSE)

\* lines 523-578 when save_json_to_file raises nothing
AssembleSaving ==
    /\ Assemble
    /\ \/ uses_fallback(build_result(yahoo_news, google_news))
       \/ file' = save_json_to_file(file, ret'.value, NoFault)

NextPersist == CallRemoving \/ FetchYahoo \/ FetchGoogle \/ AssembleSaving

SpecPersist == Init /\ [][NextPersist]_vars

----------------------------------------------------------------------------
(* Properties                                                              *)

Elems(seq) == {seq[i] : i \in 1..Len(seq)}

HasHttpScheme(u) == startswith(u, HTTP) \/ startswith(u, HTTPS)

Returned == ret.returned
Document == ret.value.value
IsFallback == ret.value = create_fallback_json

\* the file holds the whole text of a document, not a part of one
HoldsDocument(f) == "value" \in DOMAIN f.content

RecordsOf(doc) == UNION { Elems(sec.data) : sec \in Elems(doc.result) }

\* C1: every record of a returned document that is not the fallback has a
\* title of five characters or more and a link that starts with http:// or
\* https://, whichever extractor it comes from.
C1_RecordsAreFiltered ==
    (Returned /\ ~IsFallback) =>
        \A r \in RecordsOf(Document) :
            Len(strip(r.text)) >= MIN_TEXT_LEN /\ HasHttpScheme(r.url)

\* C2: the patterns are tried in the order A, B, C; B is tried only after A
\* accepted nothing and C only after A and B accepted nothing, the cascade
\* goes on exactly until one of them accepts a record, and all the records
\* of the call come from one strategy.
C2_CascadeStopsAtFirstSuccess ==
    /\ ran \in {<<>>, <<"A">>, <<"A", "B">>, <<"A", "B", "C">>}
    /\ "B" \in Elems(ran) => accepted["A"] = 0
    /\ "C" \in Elems(ran) => accepted["A"] = 0 /\ accepted["B"] = 0
    /\ pc = "parsed" =>
          /\ "A" \in Elems(ran)
          /\ accepted["A"] = 0 => "B" \in Elems(ran)
          /\ (accepted["A"] = 0 /\ accepted["B"] = 0) => "C" \in Elems(ran)
    /\ Cardinality({s \in {"A", "B", "C"} : accepted[s] > 0}) <= 1
    /\ Len(news_array) = accepted["A"] + accepted["B"] + accepted["C"]

\* the cascade stopped at the second pattern, whose records are the result
C2_StoppedAtSecond ==
    /\ pc = "parsed"
    /\ ran = <<"A", "B">>
    /\ accepted["B"] > 0
    /\ finditer("C", html_content) # <<>>

\* C3: when both extractors return no record, get_hot_words_json returns
\* the document of create_fallback_json itself, never an assembled document
\* with an empty section list.
C3_BothEmptyGivesFallback ==
    (pc = "returned" /\ yahoo_news = <<>> /\ google_news = <<>>) =>
        /\ Returned
        /\ ret.value = create_fallback_json
        /\ Document.result # <<>>

C3_FallbackReturned ==
    /\ pc = "returned"
    /\ yahoo_news = <<>> /\ google_news = <<>>
    /\ ret.value = create_fallback_json

\* the records the loop accepts when it runs over every item of the feed
AcceptableRecords(items) == rss_loop(items, <<>>)

FirstAcceptable(items) ==
    LET all == AcceptableRecords(items)
    IN  SubSeq(all, 1, IF Len(all) < MAX_NEWS_ITEMS THEN Len(all)
                       ELSE MAX_NEWS_ITEMS)

\* C4: for a well-formed feed the extractor returns, in document order, the
\* first min(15, n) acceptable items of the whole document, n being the
\* number of acceptable items in it.
C4_FirstAcceptableItems ==
    (pc = "parsed" /\ xml_content.well_formed) =>
        google_news = FirstAcceptable(xml_content.items)

\* C5 as stated: clean_title applied to its own result gives that result.
C5_Idempotent ==
    Len(cleaned) >= 2 => cleaned[2] = cleaned[1]

\* C5 as amended: clean_title applied to its own result gives that result
\* whenever the result holds neither a '-' nor a '&'.
C5_IdempotentWithoutDashOrAmpersand ==
    Len(cleaned) >= 2 =>
        (("-" \notin Elems(cleaned[1]) /\ "&" \notin Elems(cleaned[1]))
            => cleaned[2] = cleaned[1])

\* a title that the first cleaning shortened to one the second leaves alone
C5_CleanedOnce ==
    /\ Len(cleaned) >= 2
    /\ "-" \in Elems(title) /\ "&" \in Elems(title)
    /\ cleaned[1] # title /\ cleaned[1] # <<>>
    /\ "-" \notin Elems(cleaned[1]) /\ "&" \notin Elems(cleaned[1])
    /\ cleaned[2] = cleaned[1]

WellFormedDocument(doc) ==
    /\ DOMAIN doc = {"config_id", "updateIntervalMinutes", "result", "hash",
                     "qt", "message", "cost", "status"}
    /\ doc.status = 0
    /\ doc.message = "success"
    /\ doc.result # <<>>

\* C6: whatever the two sources give, no exception leaves
\* get_hot_words_json, and the document it returns has all its fields,
\* status 0, message "success" and a section list that is not empty.
C6_AlwaysReturnsDocument ==
    /\ ~raised
    /\ pc # "raised"
    /\ pc = "returned" => Returned
    /\ Returned => WellFormedDocument(Document)

\* one source gave nothing, the other gave records, a document is returned
C6_PartialFailure ==
    /\ pc = "returned"
    /\ yahoo_news = <<>> /\ google_news # <<>>
    /\ WellFormedDocument(Document)

NoDenylisted(u) ==
    ~\E p \in 1..Len(exclude_url_patterns) :
        contains(lower(u), exclude_url_patterns[p])

HasHttpSchemeAnyCase(u) == HasHttpScheme(lower(u))

\* C7: should_exclude_url tests the scheme without regard to letter case: a
\* url that is not empty, holds no denylisted substring and starts with
\* http:// or https:// in any letter case is not excluded, and every url
\* whose prefix is neither is excluded.
C7_SchemeInAnyCase ==
    excluded # <<>> =>
        /\ (url # <<>> /\ NoDenylisted(url) /\ HasHttpSchemeAnyCase(url))
               => ~excluded[1]
        /\ ~HasHttpSchemeAnyCase(url) => excluded[1]

\* C8: neither extractor yields more than MAX_NEWS_ITEMS records, and no
\* section of a returned or saved document holds more.
C8_SectionCap ==
    /\ Len(yahoo_news) <= MAX_NEWS_ITEMS
    /\ Len(google_news) <= MAX_NEWS_ITEMS
    /\ Returned =>
          \A sec \in Elems(Document.result) : Len(sec.data) <= MAX_NEWS_ITEMS
    /\ (file.exists /\ HoldsDocument(file)) =>
          \A sec \in Elems(file.content.value.result) :
              Len(sec.data) <= MAX_NEWS_ITEMS

\* both sections of a returned document are full
C8_FullSections ==
    /\ pc = "returned"
    /\ Len(Document.result) = 2
    /\ \A sec \in Elems(Document.result) : Len(sec.data) = MAX_NEWS_ITEMS

\* C9: in a returned document that is not the fallback every section has a
\* record, no source has two sections, and the section of Yahoo comes
\* before the section of Google.
C9_SectionsInPriorityOrder ==
    (pc = "returned" /\ ~IsFallback) =>
        LET result == Document.result
        IN  /\ \A sec \in Elems(result) : sec.data # <<>>
            /\ \A i, j \in 1..Len(result) :
                  i # j => result[i].track_id # result[j].track_id
            /\ \A i, j \in 1..Len(result) :
                  (result[i].track_id = "hq_yahoo" /\ result[j].track_id = "hq_google")
                      => i < j
            /\ \A sec \in Elems(result) :
                  \/ sec.track_id = "hq_yahoo" /\ sec.data = yahoo_news
                  \/ sec.track_id = "hq_google" /\ sec.data = google_news
            /\ yahoo_news # <<>> => \E sec \in Elems(result) : sec.track_id = "hq_yahoo"
            /\ google_news # <<>> => \E sec \in Elems(result) : sec.track_id = "hq_google"

\* a document with the two sections
C9_BothSections ==
    /\ pc = "returned" /\ ~IsFallback
    /\ Len(Document.result) = 2
    /\ Document.result[1].track_id = "hq_yahoo"

\* C10: the first pattern never contributes a record: every link it captures
\* starts with a backslash and is rejected by should_exclude_url, so the
\* second pattern is tried on every call and the records come from the
\* second or the third pattern only.
C10_FirstPatternNeverContributes ==
    /\ accepted["A"] = 0
    /\ \A m \in Elems(finditer("A", html_content)) :
          m.url[1] = "\\" /\ should_exclude_url(m.url)
    /\ pc \in {"pattern3", "parsed"} => (Len(ran) >= 2 /\ ran[2] = "B")
    /\ Len(news_array) = accepted["B"] + accepted["C"]

\* the first pattern matched an element with an acceptable title, and the
\* records of the call are those of a later pattern
C10_ArticleLinkRejected ==
    /\ pc = "parsed"
    /\ \E m \in Elems(finditer("A", html_content)) :
          ~should_exclude_text(clean_title(m.title))
    /\ accepted["A"] = 0
    /\ news_array # <<>>

\* C11: when file removal and file writing succeed, no file exists while a
\* call is fetching (the previous copy is deleted first); after a call has
\* returned, recword.json exists if and only if the returned document is
\* not the fallback document, its content is then the returned document,
\* and after a fallback read_local_json_file returns None.
C11_FileIsLastDocument ==
    /\ pc \in {"fetch_yahoo", "fetch_google", "assemble"} => ~file.exists
    /\ pc = "returned" =>
          /\ file.exists <=> ~IsFallback
          /\ ~IsFallback =>
                read_local_json_file(file, FALSE)
                    = [found |-> TRUE, content |-> ret.value]
          /\ IsFallback =>
                \A fails \in BOOLEAN : read_local_json_file(file, fails) = None

\* a call returned a document with a section of each source, and the file
\* holds that document
C11_DocumentPersisted ==
    /\ pc = "returned"
    /\ ~IsFallback
    /\ Len(Document.result) = 2
    /\ file.exists
    /\ file.content = ret.value

====
